---- MODULE Spec2Model ----
(***************************************************************************)
(* A model of the two programs of the repository:                          *)
(*   - main_ETM (src/src/main_ETM.py), train mode: the epoch loop with its *)
(*     model selector (checkpoint on improvement) and learning-rate        *)
(*     annealer, followed by the reload of the checkpoint;                  *)
(*   - preprocessing (src/src/preprocessing.py): vocabulary construction,  *)
(*     train/test/validation split, removal of empty documents, the split  *)
(*     of the test documents in two halves and the bag-of-words output.    *)
(* Specification Spec runs main_ETM, specification SpecPre runs            *)
(* preprocessing; the variables of the program that is not running keep    *)
(* their idle values.                                                      *)
(***************************************************************************)
EXTENDS Integers, Sequences, FiniteSets, TLC

VARIABLES
    \* ---- main_ETM: arguments of the call
    epochs,         \* number of epochs
    lr,             \* learning rate handed to the optimizer, a rational <<n, d>>
    lr_factor,      \* "divide learning rate by this", a rational <<n, d>>
    nonmono,        \* "number of bad hits allowed"
    anneal_lr,      \* whether to anneal the learning rate
    \* ---- main_ETM: state of the run
    pc,             \* position of the control in main_ETM
    error,          \* the exception that ended the run, "none" while it runs
    epoch,          \* the loop variable of "for epoch in range(0, epochs)"
    model,          \* the model object: which run trained it, for how many epochs
    val_ppl,        \* result of the last model.evaluate call
    best_epoch,
    best_val_ppl,
    all_val_ppls,
    opt_lr,         \* optimizer.param_groups[0]['lr'], a rational <<n, d>>
    ckpt,           \* content of the checkpoint file save_path/model_file
    ckpt_writes,    \* the epochs in which the checkpoint file was written, in order
    annealed,       \* the epochs in which the division of line 151 was executed
    printed,        \* the values printed by "The validation scores", in order
    \* ---- preprocessing: arguments of the call and the file system
    path_exists,    \* whether the folder path_save exists
    docs,           \* the texts, each the sequence of its whitespace-separated words
    timestamps,
    stopwords,
    min_df,
    data_split,     \* the three proportions, in percent
    seed,
    \* ---- preprocessing: state of the run
    ppc,            \* position of the control in preprocessing
    perr,           \* the exception that ended the run, "none" while it runs
    vocab,
    idx_permute,
    docs_tr, docs_ts, docs_va,
    timestamps_tr, timestamps_ts, timestamps_va,
    indices_tr, indices_ts, indices_va,
    docs_ts_h1, docs_ts_h2,
    files,          \* the files written in path_save: file name -> content
    \* ---- main_ETM, eval mode
    num_words,      \* "number of words for topic viz"
    beta,           \* the topic-word matrix: beta[k] is the row of a topic
    k_topic,        \* the loop variable of "for k in range(num_topics)"
    topic_lists,    \* the lists printed by "Topic k: topic_words", in order
    parameters      \* whether the file of the parameters has been written

mainVars == <<epochs, lr, lr_factor, nonmono, anneal_lr, pc, error, epoch, model,
              val_ppl, best_epoch, best_val_ppl, all_val_ppls, opt_lr, ckpt,
              ckpt_writes, annealed, printed>>

preArgs == <<docs, stopwords, min_df, data_split, seed>>

preSets == <<docs_tr, docs_ts, docs_va, timestamps_tr, timestamps_ts, timestamps_va,
             indices_tr, indices_ts, indices_va>>

preVars == <<path_exists, preArgs, timestamps, ppc, perr, vocab, idx_permute, preSets,
             docs_ts_h1, docs_ts_h2, files>>

evalVars == <<num_words, beta, k_topic, topic_lists, parameters>>

vars == <<mainVars, preVars, evalVars>>

-----------------------------------------------------------------------------
(* Bounds of the model. *)

MaxEpochs == 4

MaxNonmono == 2

\* number of documents handed to preprocessing
NumDocs == 4

-----------------------------------------------------------------------------
(* Rational numbers <<n, d>>, d > 0, kept in lowest terms: the learning    *)
(* rates and factors used are dyadic multiples of the decimal literals, on *)
(* which float division and comparison are exact.                          *)

RECURSIVE Gcd(_, _)
Gcd(a, b) == IF b = 0 THEN a ELSE Gcd(b, a % b)

RatNorm(r) == LET g == Gcd(r[1], r[2]) IN <<r[1] \div g, r[2] \div g>>

RatDiv(a, b) == RatNorm(<<a[1] * b[2], a[2] * b[1]>>)

RatMul(a, b) == RatNorm(<<a[1] * b[1], a[2] * b[2]>>)

RatGt(a, b) == a[1] * b[2] > b[1] * a[2]

RatLeq(a, b) == ~RatGt(a, b)

-----------------------------------------------------------------------------
(* main_ETM, train mode.                                                   *)

\* best_val_ppl = 1e9 before the first epoch
BestValPplInit == 1000000000

\* the floor of the annealing test, 1e-5
LrFloor == <<1, 100000>>

\* The perplexities ETM.evaluate returns in the runs: all finite and above 1,
\* one of them not below 1e9.
PplValues == {2, 3, 5, BestValPplInit}

\* The learning rates of the runs: the default 0.005, 2e-5 and 1e-5.
LrValues == {<<1, 200>>, <<1, 50000>>, <<1, 100000>>}

\* The factors of the runs: 0.5, 1, 2 and the default 4.
LrFactorValues == {<<1, 2>>, <<1, 1>>, <<2, 1>>, <<4, 1>>}

\* No checkpoint file at the path.
NoFile == [run |-> "none", trained |-> 0]

\* A checkpoint file left at the same path by an earlier run.
StaleFile == [run |-> "earlier", trained |-> 0]

\* min() of a non-empty Python list of numbers
Min(s) == CHOOSE x \in {s[i] : i \in 1..Len(s)} : \A j \in 1..Len(s) : x <= s[j]

\* the numbers of a set in increasing order
RECURSIVE SortedSeq(_)
SortedSeq(S) ==
    IF S = {} THEN <<>>
    ELSE LET m == CHOOSE x \in S : \A y \in S : x <= y
         IN <<m>> \o SortedSeq(S \ {m})

\* s[:stop] of a Python list: a negative stop counts from the end
PySliceTo(s, stop) ==
    LET n == Len(s)
        e == IF stop < 0 THEN (IF n + stop < 0 THEN 0 ELSE n + stop)
                         ELSE (IF stop > n THEN n ELSE stop)
    IN SubSeq(s, 1, e)

\* all_val_ppls[:-nonmono]
OlderHistory(hist, nm) == PySliceTo(hist, 0 - nm)

\* the learning rate multiplied by the factor instead of divided
AnnealedLrMultiplied(l, f) == RatMul(l, f)

\* optimizer.param_groups[0]['lr'] /= lr_factor
AnnealedLr(l, f) == RatDiv(l, f)

\* with open(ckpt, 'wb') as f: torch.save(model, f)
SaveCheckpoint ==
    /\ ckpt' = model
    /\ ckpt_writes' = Append(ckpt_writes, epoch)

MainInit ==
    /\ epochs \in 0..MaxEpochs
    /\ lr \in LrValues
    /\ lr_factor \in LrFactorValues
    /\ nonmono \in 0..MaxNonmono
    /\ anneal_lr \in BOOLEAN
    /\ pc = "for"
    /\ error = "none"
    /\ epoch = 0
    /\ model = [run |-> "this", trained |-> 0]
    /\ val_ppl = 0
    /\ best_epoch = 0
    /\ best_val_ppl = BestValPplInit
    /\ all_val_ppls = <<>>
    /\ opt_lr = lr
    /\ ckpt \in {NoFile, StaleFile}
    /\ ckpt_writes = <<>>
    /\ annealed = <<>>
    /\ printed = <<>>

\* ETM.train_for_epoch: one more epoch of training on the model object; it
\* changes the parameters of the model and nothing else of the run
train_for_epoch(m) == [m EXCEPT !.trained = @ + 1]

\* the head of the loop and model.train_for_epoch(...)
TrainForEpoch ==
    /\ pc = "for"
    /\ epoch < epochs
    /\ model' = train_for_epoch(model)
    /\ pc' = "evaluate"
    /\ UNCHANGED <<preVars, evalVars>>
    /\ UNCHANGED <<epochs, lr, lr_factor, nonmono, anneal_lr, error, epoch, val_ppl,
                   best_epoch, best_val_ppl, all_val_ppls, opt_lr, ckpt, ckpt_writes,
                   annealed, printed>>

\* val_ppl = model.evaluate(...); print("The validation scores", val_ppl)
Evaluate ==
    /\ pc = "evaluate"
    /\ \E v \in PplValues :
          /\ val_ppl' = v
          /\ printed' = Append(printed, v)
    /\ pc' = "select"
    /\ UNCHANGED <<preVars, evalVars>>
    /\ UNCHANGED <<epochs, lr, lr_factor, nonmono, anneal_lr, error, epoch, model,
                   best_epoch, best_val_ppl, all_val_ppls, opt_lr, ckpt, ckpt_writes,
                   annealed>>

\* a selector step that divides the learning rate without the 1e-5 floor test
SelectNoFloor ==
    /\ pc = "select"
    /\ IF val_ppl < best_val_ppl
       THEN /\ SaveCheckpoint
            /\ best_epoch' = epoch
            /\ best_val_ppl' = val_ppl
            /\ pc' = "record"
            /\ UNCHANGED <<opt_lr, annealed, error>>
       ELSE IF anneal_lr /\ Len(all_val_ppls) > nonmono
            THEN IF OlderHistory(all_val_ppls, nonmono) = <<>>
                 THEN /\ pc' = "raised"
                      /\ error' = "ValueError"
                      /\ UNCHANGED <<opt_lr, annealed, best_epoch, best_val_ppl,
                                     ckpt, ckpt_writes>>
                 ELSE /\ IF val_ppl > Min(OlderHistory(all_val_ppls, nonmono))
                         THEN /\ opt_lr' = AnnealedLr(opt_lr, lr_factor)
                              /\ annealed' = Append(annealed, epoch)
                         ELSE UNCHANGED <<opt_lr, annealed>>
                      /\ pc' = "record"
                      /\ UNCHANGED <<error, best_epoch, best_val_ppl, ckpt, ckpt_writes>>
            ELSE /\ pc' = "record"
                 /\ UNCHANGED <<opt_lr, annealed, error, best_epoch, best_val_ppl,
                                ckpt, ckpt_writes>>
    /\ UNCHANGED <<preVars, evalVars>>
    /\ UNCHANGED <<epochs, lr, lr_factor, nonmono, anneal_lr, epoch, model, val_ppl,
                   all_val_ppls, printed>>

\* the if/else of the selector: checkpoint on improvement, else the annealing test
Select ==
    /\ pc = "select"
    /\ IF val_ppl < best_val_ppl
       THEN /\ SaveCheckpoint
            /\ best_epoch' = epoch
            /\ best_val_ppl' = val_ppl
            /\ pc' = "record"
            /\ UNCHANGED <<opt_lr, annealed, error>>
       ELSE IF anneal_lr /\ Len(all_val_ppls) > nonmono
            THEN IF OlderHistory(all_val_ppls, nonmono) = <<>>
                 THEN \* min() of an empty list raises ValueError
                      /\ pc' = "raised"
                      /\ error' = "ValueError"
                      /\ UNCHANGED <<opt_lr, annealed, best_epoch, best_val_ppl,
                                     ckpt, ckpt_writes>>
                 ELSE /\ IF /\ val_ppl > Min(OlderHistory(all_val_ppls, nonmono))
                            /\ RatGt(opt_lr, LrFloor)
                         THEN /\ opt_lr' = AnnealedLr(opt_lr, lr_factor)
                              /\ annealed' = Append(annealed, epoch)
                         ELSE UNCHANGED <<opt_lr, annealed>>
                      /\ pc' = "record"
                      /\ UNCHANGED <<error, best_epoch, best_val_ppl, ckpt, ckpt_writes>>
            ELSE /\ pc' = "record"
                 /\ UNCHANGED <<opt_lr, annealed, error, best_epoch, best_val_ppl,
                                ckpt, ckpt_writes>>
    /\ UNCHANGED <<preVars, evalVars>>
    /\ UNCHANGED <<epochs, lr, lr_factor, nonmono, anneal_lr, epoch, model, val_ppl,
                   all_val_ppls, printed>>

\* an end of epoch that also saves the model of the epoch
RecordSavingLast ==
    /\ pc = "record"
    /\ all_val_ppls' = Append(all_val_ppls, val_ppl)
    /\ SaveCheckpoint
    /\ epoch' = epoch + 1
    /\ pc' = "for"
    /\ UNCHANGED <<preVars, evalVars>>
    /\ UNCHANGED <<epochs, lr, lr_factor, nonmono, anneal_lr, error, model, val_ppl,
                   best_epoch, best_val_ppl, opt_lr, annealed, printed>>

\* a history that keeps only the patience window: the last nonmono + 1 values
RecordWindow ==
    /\ pc = "record"
    /\ all_val_ppls' = LET h == Append(all_val_ppls, val_ppl)
                       IN IF Len(h) > nonmono + 1
                          THEN SubSeq(h, Len(h) - nonmono, Len(h)) ELSE h
    /\ epoch' = epoch + 1
    /\ pc' = "for"
    /\ UNCHANGED <<preVars, evalVars>>
    /\ UNCHANGED <<epochs, lr, lr_factor, nonmono, anneal_lr, error, model, val_ppl,
                   best_epoch, best_val_ppl, opt_lr, ckpt, ckpt_writes, annealed,
                   printed>>

\* the optional model.visualize call, all_val_ppls.append(val_ppl), next iteration
Record ==
    /\ pc = "record"
    /\ all_val_ppls' = Append(all_val_ppls, val_ppl)
    /\ epoch' = epoch + 1
    /\ pc' = "for"
    /\ UNCHANGED <<preVars, evalVars>>
    /\ UNCHANGED <<epochs, lr, lr_factor, nonmono, anneal_lr, error, model, val_ppl,
                   best_epoch, best_val_ppl, opt_lr, ckpt, ckpt_writes, annealed,
                   printed>>

\* after the loop: with open(ckpt, 'rb') as f: model = torch.load(f)
LoadCheckpoint ==
    /\ pc = "for"
    /\ epoch >= epochs
    /\ IF ckpt = NoFile
       THEN /\ pc' = "raised"
            /\ error' = "FileNotFoundError"
            /\ UNCHANGED model
       ELSE /\ model' = ckpt
            /\ pc' = "final_evaluate"
            /\ UNCHANGED error
    /\ UNCHANGED <<preVars, evalVars>>
    /\ UNCHANGED <<epochs, lr, lr_factor, nonmono, anneal_lr, epoch, val_ppl,
                   best_epoch, best_val_ppl, all_val_ppls, opt_lr, ckpt, ckpt_writes,
                   annealed, printed>>

\* val_ppl = model.evaluate(...) on the reloaded model
FinalEvaluate ==
    /\ pc = "final_evaluate"
    /\ \E v \in PplValues : val_ppl' = v
    /\ pc' = "done"
    /\ UNCHANGED <<preVars, evalVars>>
    /\ UNCHANGED <<epochs, lr, lr_factor, nonmono, anneal_lr, error, epoch, model,
                   best_epoch, best_val_ppl, all_val_ppls, opt_lr, ckpt, ckpt_writes,
                   annealed, printed>>

MainNext ==
    \/ TrainForEpoch
    \/ Evaluate
    \/ Select
    \/ Record
    \/ LoadCheckpoint
    \/ FinalEvaluate

-----------------------------------------------------------------------------
(* preprocessing.                                                          *)

\* max_df = 0.7, in percent
MaxDfPercent == 70

\* the words CountVectorizer's token pattern accepts (two characters or more),
\* in the alphabetical order of its feature indices
LongWords == <<"aa", "bb", "cc">>

\* the texts of the runs; "c" is a word the token pattern rejects
DocPool == { <<"c">>,
             <<"aa">>,
             <<"bb", "aa">>,
             <<"aa", "cc", "bb">>,
             <<"bb", "aa", "cc", "aa", "bb">> }

\* the timestamps of the runs, in sorted order
TimeValues == <<"no_timestamps", "t1", "t2">>

\* timestamps given for every document
GivenTimestamps == [i \in 1..NumDocs |-> IF i % 2 = 1 THEN "t2" ELSE "t1"]

\* the data_split arguments of the runs: the default and two others
DataSplitValues == { <<85, 10, 5>>, <<40, 40, 20>>, <<25, 75, 0>> }

\* data_split arguments that are not three non-negative proportions summing
\* to 1: two proportions, one proportion, a negative proportion
MalformedDataSplits == { <<50, 50>>, <<100>>, <<90, 90, -80>> }

Range(s) == {s[i] : i \in 1..Len(s)}

\* the elements of s at the positions of the set K, in order
Pick(s, K) ==
    LET idx == SortedSeq(K)
    IN [k \in 1..Len(idx) |-> s[idx[k]]]

\* the orders in which a Python set of words may be listed
Orderings(S) == {q \in [1..Cardinality(S) -> S] : Range(q) = S}

\* the seeds of the runs
Seeds == {0, 1, 2}

\* np.random.permutation(num_docs) after np.random.seed(seed): one permutation
\* of 0..n-1 for each seed (here the identity, the reversal and a rotation)
Permutation(sd, n) ==
    [d \in 1..n |-> IF sd = 0 THEN d - 1
                     ELSE IF sd = 1 THEN n - d
                     ELSE d % n]

\* document frequency of a word: cvz = fit_transform(docs).sign(), summed by column
DocFreq(ds, w) == Cardinality({i \in 1..Len(ds) : w \in Range(ds[i])})

\* the features CountVectorizer(min_df, max_df) keeps
VectorizerWords(ds, mindf) ==
    {w \in Range(LongWords) :
        /\ DocFreq(ds, w) >= 1
        /\ DocFreq(ds, w) >= mindf
        /\ DocFreq(ds, w) * 100 <= MaxDfPercent * Len(ds)}

\* vocab_aux: the features by increasing document frequency (np.argsort),
\* without the stopwords
RECURSIVE ByDocFreq(_, _, _)
ByDocFreq(ds, W, c) ==
    IF c > Len(ds) THEN <<>>
    ELSE SelectSeq(LongWords, LAMBDA w : w \in W /\ DocFreq(ds, w) = c)
            \o ByDocFreq(ds, W, c + 1)

InitialVocab(ds, mindf, stop) ==
    SelectSeq(ByDocFreq(ds, VectorizerWords(ds, mindf), 1), LAMBDA w : w \notin stop)

\* int(np.floor(data_split[i] * num_docs))
SplitSize(percent, n) == (percent * n) \div 100

\* the words of the training documents that are in word2id
TrainWords(ds, perm, trSize, voc) ==
    {w \in Range(voc) : \E d \in 1..trSize : w \in Range(ds[perm[d] + 1])}

\* word ids counted from 1
Word2IdFromOne(voc, w) == CHOOSE j \in 1..Len(voc) : voc[j] = w

\* word2id = dict([(w, j) for j, w in enumerate(vocab)])
Word2Id(voc, w) == (CHOOSE j \in 1..Len(voc) : voc[j] = w) - 1

\* [word2id[w] for w in doc.split() if w in word2id]
Encode(voc, doc) ==
    LET kept == SelectSeq(doc, LAMBDA w : w \in Range(voc))
    IN [i \in 1..Len(kept) |-> Word2Id(voc, kept[i])]

\* time2id over all_times = sorted(set(timestamps))
Time2Id(ts, t) ==
    LET all_times == SelectSeq(TimeValues, LAMBDA x : x \in Range(ts))
    IN (CHOOSE i \in 1..Len(all_times) : all_times[i] = t) - 1

remove_empty(in_docs, in_timestamps, in_indices) ==
    LET Keep == {i \in 1..Len(in_docs) : in_docs[i] # <<>>}
    IN <<Pick(in_docs, Keep), Pick(in_timestamps, Keep), Pick(in_indices, Keep)>>

\* a removal that keeps the documents of length thr
remove_by_threshold_inclusive(in_docs, in_timestamps, in_indices, thr) ==
    LET Keep == {i \in 1..Len(in_docs) : Len(in_docs[i]) >= thr}
    IN <<Pick(in_docs, Keep), Pick(in_timestamps, Keep), Pick(in_indices, Keep)>>

remove_by_threshold(in_docs, in_timestamps, in_indices, thr) ==
    LET Keep == {i \in 1..Len(in_docs) : Len(in_docs[i]) > thr}
    IN <<Pick(in_docs, Keep), Pick(in_timestamps, Keep), Pick(in_indices, Keep)>>

\* a first half that stops one position early
FirstHalfStrict(doc) == Pick(doc, {i \in 1..Len(doc) : 2 * (i - 1) < Len(doc) - 2})

\* [w for i,w in enumerate(doc) if i<=len(doc)/2.0-1], i counted from 0
FirstHalf(doc) == Pick(doc, {i \in 1..Len(doc) : 2 * (i - 1) <= Len(doc) - 2})

\* [w for i,w in enumerate(doc) if i>len(doc)/2.0-1]
SecondHalf(doc) == Pick(doc, {i \in 1..Len(doc) : 2 * (i - 1) > Len(doc) - 2})

\* create_bow then split_bow: the distinct ids of each document in increasing
\* order, and how often each occurs
BowTokens(ds) == [k \in 1..Len(ds) |-> SortedSeq(Range(ds[k]))]

BowCounts(ds) ==
    [k \in 1..Len(ds) |->
        [j \in 1..Len(SortedSeq(Range(ds[k]))) |->
            Cardinality({i \in 1..Len(ds[k]) : ds[k][i] = SortedSeq(Range(ds[k]))[j]})]]

\* ' '.join([id2word[idx] for idx in doc]) for each document
Text(voc, ds) == [k \in 1..Len(ds) |-> [i \in 1..Len(ds[k]) |-> voc[ds[k][i] + 1]]]

\* whether every id of the documents is a key of id2word
AllIdsKnown(voc, ds) ==
    \A k \in 1..Len(ds) : \A i \in 1..Len(ds[k]) : ds[k][i] \in 0..(Len(voc) - 1)

NoFiles == <<>>

PreInit ==
    /\ path_exists \in BOOLEAN
    /\ docs \in [1..NumDocs -> DocPool]
    /\ timestamps \in {<<>>, GivenTimestamps, <<"t1">>}
    /\ stopwords \in {{}, {"bb"}}
    /\ min_df \in {1, 2}
    /\ data_split \in DataSplitValues \cup MalformedDataSplits
    /\ seed \in Seeds
    /\ ppc = "start"
    /\ perr = "none"
    /\ vocab = <<>>
    /\ idx_permute = <<>>
    /\ docs_tr = <<>> /\ docs_ts = <<>> /\ docs_va = <<>>
    /\ timestamps_tr = <<>> /\ timestamps_ts = <<>> /\ timestamps_va = <<>>
    /\ indices_tr = <<>> /\ indices_ts = <<>> /\ indices_va = <<>>
    /\ docs_ts_h1 = <<>> /\ docs_ts_h2 = <<>>
    /\ files = NoFiles

\* lines 24-41: create the folder, check docs against timestamps
Start ==
    /\ ppc = "start"
    /\ IF path_exists
       THEN /\ ppc' = "raised" /\ perr' = "ValueError"
            /\ UNCHANGED <<path_exists, timestamps>>
       ELSE /\ path_exists' = TRUE
            /\ IF timestamps = <<>>
               THEN /\ timestamps' = [i \in 1..Len(docs) |-> "no_timestamps"]
                    /\ ppc' = "vocabulary" /\ UNCHANGED perr
               ELSE IF Len(docs) # Len(timestamps)
                    THEN /\ ppc' = "raised" /\ perr' = "ValueError"
                         /\ UNCHANGED timestamps
                    ELSE /\ ppc' = "vocabulary"
                         /\ UNCHANGED <<perr, timestamps>>
    /\ UNCHANGED <<preArgs, vocab, idx_permute, preSets, docs_ts_h1, docs_ts_h2, files>>
    /\ UNCHANGED <<mainVars, evalVars>>

\* lines 43-78: the vocabulary of CountVectorizer, sorted, without the stopwords
BuildVocabulary ==
    /\ ppc = "vocabulary"
    /\ IF VectorizerWords(docs, min_df) = {}
       THEN \* fit_transform raises on an empty vocabulary
            /\ ppc' = "raised" /\ perr' = "ValueError"
            /\ UNCHANGED vocab
       ELSE /\ vocab' = InitialVocab(docs, min_df, stopwords)
            /\ ppc' = "split"
            /\ UNCHANGED perr
    /\ UNCHANGED <<path_exists, preArgs, timestamps, idx_permute, preSets,
                   docs_ts_h1, docs_ts_h2, files>>
    /\ UNCHANGED <<mainVars, evalVars>>

\* lines 80-108: split sizes, permutation, vocabulary of the training documents,
\* the three sets of documents with their timestamps and indices
SplitSets ==
    /\ ppc = "split"
    /\ IF Len(data_split) < 2
       THEN \* data_split[0] or data_split[1] raises IndexError (lines 83-84)
            /\ ppc' = "raised" /\ perr' = "IndexError"
            /\ UNCHANGED <<vocab, idx_permute, preSets>>
       ELSE
       LET num_docs == Len(docs)
           perm == Permutation(seed, num_docs)
           trSize == SplitSize(data_split[1], num_docs)
           tsSize == SplitSize(data_split[2], num_docs)
           vaSize == num_docs - trSize - tsSize
       IN IF trSize > num_docs
          THEN \* idx_permute[idx_d] raises IndexError at line 90
               /\ idx_permute' = perm
               /\ ppc' = "raised" /\ perr' = "IndexError"
               /\ UNCHANGED <<vocab, preSets>>
          ELSE
          \E voc \in Orderings(TrainWords(docs, perm, trSize, vocab)) :
             /\ idx_permute' = perm
             /\ vocab' = voc
             /\ docs_tr' = [d \in 1..trSize |-> Encode(voc, docs[perm[d] + 1])]
             /\ IF trSize + tsSize > num_docs
                THEN \* idx_permute[idx_d+trSize] raises IndexError at line 97
                     /\ ppc' = "raised" /\ perr' = "IndexError"
                     /\ UNCHANGED <<docs_ts, docs_va, timestamps_tr, timestamps_ts,
                                    timestamps_va, indices_tr, indices_ts, indices_va>>
                ELSE
                /\ docs_ts' = [d \in 1..tsSize |-> Encode(voc, docs[perm[d + trSize] + 1])]
                /\ docs_va' = [d \in 1..vaSize |->
                                  Encode(voc, docs[perm[d + trSize + tsSize] + 1])]
                /\ timestamps_tr' = [d \in 1..trSize |->
                                        Time2Id(timestamps, timestamps[perm[d] + 1])]
                /\ timestamps_ts' = [d \in 1..tsSize |->
                                        Time2Id(timestamps, timestamps[perm[d + trSize] + 1])]
                /\ timestamps_va' = [d \in 1..vaSize |->
                          Time2Id(timestamps, timestamps[perm[d + trSize + tsSize] + 1])]
                /\ indices_tr' = [d \in 1..trSize |-> perm[d]]
                /\ indices_ts' = [d \in 1..tsSize |-> perm[d + trSize]]
                /\ indices_va' = [d \in 1..vaSize |-> perm[d + trSize + tsSize]]
                /\ ppc' = "remove"
                /\ UNCHANGED perr
    /\ UNCHANGED <<path_exists, preArgs, timestamps, docs_ts_h1, docs_ts_h2, files>>
    /\ UNCHANGED <<mainVars, evalVars>>

\* lines 143-147: remove the empty documents, and the test documents of length 1
RemoveEmpty ==
    /\ ppc = "remove"
    /\ LET tr == remove_empty(docs_tr, timestamps_tr, indices_tr)
           ts == remove_empty(docs_ts, timestamps_ts, indices_ts)
           va == remove_empty(docs_va, timestamps_va, indices_va)
           ts1 == remove_by_threshold(ts[1], ts[2], ts[3], 1)
       IN /\ docs_tr' = tr[1] /\ timestamps_tr' = tr[2] /\ indices_tr' = tr[3]
          /\ docs_ts' = ts1[1] /\ timestamps_ts' = ts1[2] /\ indices_ts' = ts1[3]
          /\ docs_va' = va[1] /\ timestamps_va' = va[2] /\ indices_va' = va[3]
    /\ ppc' = "halves"
    /\ UNCHANGED <<path_exists, preArgs, timestamps, perr, vocab, idx_permute,
                   docs_ts_h1, docs_ts_h2, files>>
    /\ UNCHANGED <<mainVars, evalVars>>

\* lines 151-152: split the test documents in two halves
SplitHalves ==
    /\ ppc = "halves"
    /\ docs_ts_h1' = [k \in 1..Len(docs_ts) |-> FirstHalf(docs_ts[k])]
    /\ docs_ts_h2' = [k \in 1..Len(docs_ts) |-> SecondHalf(docs_ts[k])]
    /\ ppc' = "save"
    /\ UNCHANGED <<path_exists, preArgs, timestamps, perr, vocab, idx_permute,
                   preSets, files>>
    /\ UNCHANGED <<mainVars, evalVars>>

InfoJson ==
    [indices_tr |-> indices_tr, indices_ts |-> indices_ts, indices_va |-> indices_va,
     docs_tr |-> docs_tr, vocab_tr |-> vocab]

\* lines 158-317: info.json, the texts, the vocabulary, the timestamps and the
\* token/count lists of the five bags of words
SaveFiles ==
    /\ ppc = "save"
    /\ IF ~(AllIdsKnown(vocab, docs_tr) /\ AllIdsKnown(vocab, docs_ts)
              /\ AllIdsKnown(vocab, docs_va))
       THEN \* id2word[idx] raises on an unknown id, after info.json is written
            /\ files' = ("info.json" :> InfoJson)
            /\ ppc' = "raised" /\ perr' = "KeyError"
       ELSE /\ files' =
                 ("info.json" :> InfoJson)
              @@ ("text_tr.txt" :> Text(vocab, docs_tr))
              @@ ("text_ts.txt" :> Text(vocab, docs_ts))
              @@ ("text_va.txt" :> Text(vocab, docs_va))
              @@ ("vocab.pkl" :> vocab)
              @@ ("bow_tr_timestamps.mat" :> timestamps_tr)
              @@ ("bow_ts_timestamps.mat" :> timestamps_ts)
              @@ ("bow_va_timestamps.mat" :> timestamps_va)
              @@ ("bow_tr_tokens.mat" :> BowTokens(docs_tr))
              @@ ("bow_tr_counts.mat" :> BowCounts(docs_tr))
              @@ ("bow_ts_tokens.mat" :> BowTokens(docs_ts))
              @@ ("bow_ts_counts.mat" :> BowCounts(docs_ts))
              @@ ("bow_ts_h1_tokens.mat" :> BowTokens(docs_ts_h1))
              @@ ("bow_ts_h1_counts.mat" :> BowCounts(docs_ts_h1))
              @@ ("bow_ts_h2_tokens.mat" :> BowTokens(docs_ts_h2))
              @@ ("bow_ts_h2_counts.mat" :> BowCounts(docs_ts_h2))
              @@ ("bow_va_tokens.mat" :> BowTokens(docs_va))
              @@ ("bow_va_counts.mat" :> BowCounts(docs_va))
            /\ ppc' = "done"
            /\ UNCHANGED perr
    /\ UNCHANGED <<path_exists, preArgs, timestamps, vocab, idx_permute, preSets,
                   docs_ts_h1, docs_ts_h2>>
    /\ UNCHANGED <<mainVars, evalVars>>

PreNext ==
    \/ Start
    \/ BuildVocabulary
    \/ SplitSets
    \/ RemoveEmpty
    \/ SplitHalves
    \/ SaveFiles

-----------------------------------------------------------------------------
(* The two specifications.                                                 *)

-----------------------------------------------------------------------------
(* main_ETM, eval mode: the checkpoint named by load_from is loaded, the   *)
(* document-completion perplexity and the most used topics are computed,   *)
(* the top words of every topic are printed and the parameters are saved.  *)

NumTopics == 2
VocabSize == 3
MaxNumWords == 4

WordPool == <<"aa", "bb", "cc", "dd", "ee", "ff">>

\* the vocabulary read by data.get_data
EvalVocab == SubSeq(WordPool, 1, VocabSize)

\* a row of model.get_beta(): one positive weight per word of the vocabulary,
\* here pairwise distinct
BetaRows == Orderings(1..VocabSize)

\* s[start:] of a Python list: a negative start counts from the end
PySliceFrom(s, start) ==
    LET n == Len(s)
        b == IF start < 0 THEN (IF n + start < 0 THEN 0 ELSE n + start)
                          ELSE (IF start > n THEN n ELSE start)
    IN SubSeq(s, b + 1, n)

\* s[::-1]
Reversed(s) == [i \in 1..Len(s) |-> s[Len(s) + 1 - i]]

\* numpy argsort of a row of pairwise distinct values: the indices (from 0) of
\* the row in increasing order of their values
argsort(gamma) ==
    [i \in 1..Len(gamma) |->
        (CHOOSE a \in 1..Len(gamma) :
            Cardinality({b \in 1..Len(gamma) : gamma[b] < gamma[a]}) = i - 1) - 1]

\* gamma.argsort()[-num_words+1:][::-1]
top_words(gamma, nw) == Reversed(PySliceFrom(argsort(gamma), 0 - nw + 1))

\* [vocab[a] for a in top_words]
topic_words(voc, gamma, nw) ==
    LET tw == top_words(gamma, nw)
    IN [i \in 1..Len(tw) |-> voc[tw[i] + 1]]

EvalInit ==
    /\ epochs = 0 /\ lr = <<1, 200>> /\ lr_factor = <<4, 1>>
    /\ nonmono = 10 /\ anneal_lr = FALSE
    /\ pc = "eval_load" /\ error = "none" /\ epoch = 0
    /\ model = [run |-> "this", trained |-> 0]
    /\ val_ppl = 0 /\ best_epoch = 0 /\ best_val_ppl = BestValPplInit
    /\ all_val_ppls = <<>> /\ opt_lr = <<1, 200>>
    /\ ckpt \in {NoFile, StaleFile}
    /\ ckpt_writes = <<>> /\ annealed = <<>> /\ printed = <<>>
    /\ num_words \in 1..MaxNumWords
    /\ beta = <<>> /\ k_topic = 0
    /\ topic_lists = <<>> /\ parameters = FALSE

\* lines 161-164: the model is read from the file load_from
EvalLoad ==
    /\ pc = "eval_load"
    /\ IF ckpt = NoFile
       THEN /\ pc' = "raised"
            /\ error' = "FileNotFoundError"
            /\ UNCHANGED model
       ELSE /\ model' = ckpt
            /\ pc' = "completion"
            /\ UNCHANGED error
    /\ UNCHANGED <<epochs, lr, lr_factor, nonmono, anneal_lr, epoch, val_ppl,
                   best_epoch, best_val_ppl, all_val_ppls, opt_lr, ckpt, ckpt_writes,
                   annealed, printed>>
    /\ UNCHANGED <<preVars, evalVars>>

\* lines 166-197: the document-completion perplexity (test_ppl, kept in
\* val_ppl) and the most used topics
EvalCompletion ==
    /\ pc = "completion"
    /\ \E p \in PplValues : val_ppl' = p
    /\ pc' = "get_beta"
    /\ UNCHANGED <<epochs, lr, lr_factor, nonmono, anneal_lr, error, epoch, model,
                   best_epoch, best_val_ppl, all_val_ppls, opt_lr, ckpt, ckpt_writes,
                   annealed, printed>>
    /\ UNCHANGED <<preVars, evalVars>>

\* lines 200-201: beta = model.get_beta() and the head of the loop on the topics
GetBeta ==
    /\ pc = "get_beta"
    /\ beta' \in [1..NumTopics -> BetaRows]
    /\ k_topic' = 0
    /\ pc' = "show"
    /\ UNCHANGED <<num_words, topic_lists, parameters>>
    /\ UNCHANGED <<epochs, lr, lr_factor, nonmono, anneal_lr, error, epoch, model,
                   val_ppl, best_epoch, best_val_ppl, all_val_ppls, opt_lr, ckpt,
                   ckpt_writes, annealed, printed>>
    /\ UNCHANGED preVars

\* lines 202-206: one iteration of "for k in range(num_topics)"
ShowTopic ==
    /\ pc = "show"
    /\ k_topic < NumTopics
    /\ topic_lists' = Append(topic_lists, topic_words(EvalVocab, beta[k_topic + 1], num_words))
    /\ k_topic' = k_topic + 1
    /\ UNCHANGED <<num_words, beta, parameters>>
    /\ UNCHANGED mainVars
    /\ UNCHANGED preVars

\* lines 208-223: the parameters are written to load_from + "_parameters.pt"
SaveParameters ==
    /\ pc = "show"
    /\ k_topic >= NumTopics
    /\ parameters' = TRUE
    /\ pc' = "eval_done"
    /\ UNCHANGED <<num_words, beta, k_topic, topic_lists>>
    /\ UNCHANGED <<epochs, lr, lr_factor, nonmono, anneal_lr, error, epoch, model,
                   val_ppl, best_epoch, best_val_ppl, all_val_ppls, opt_lr, ckpt,
                   ckpt_writes, annealed, printed>>
    /\ UNCHANGED preVars

EvalNext ==
    \/ EvalLoad
    \/ EvalCompletion
    \/ GetBeta
    \/ ShowTopic
    \/ SaveParameters

\* preprocessing is not running
PreIdle ==
    /\ path_exists = FALSE
    /\ docs = <<>> /\ timestamps = <<>> /\ stopwords = {}
    /\ min_df = 1 /\ data_split = <<85, 10, 5>> /\ seed = 0
    /\ ppc = "idle" /\ perr = "none"
    /\ vocab = <<>> /\ idx_permute = <<>>
    /\ docs_tr = <<>> /\ docs_ts = <<>> /\ docs_va = <<>>
    /\ timestamps_tr = <<>> /\ timestamps_ts = <<>> /\ timestamps_va = <<>>
    /\ indices_tr = <<>> /\ indices_ts = <<>> /\ indices_va = <<>>
    /\ docs_ts_h1 = <<>> /\ docs_ts_h2 = <<>>
    /\ files = NoFiles

\* main_ETM is not running
MainIdle ==
    /\ epochs = 0 /\ lr = <<1, 200>> /\ lr_factor = <<4, 1>>
    /\ nonmono = 10 /\ anneal_lr = FALSE
    /\ pc = "idle" /\ error = "none" /\ epoch = 0
    /\ model = [run |-> "this", trained |-> 0]
    /\ val_ppl = 0 /\ best_epoch = 0 /\ best_val_ppl = BestValPplInit
    /\ all_val_ppls = <<>> /\ opt_lr = <<1, 200>>
    /\ ckpt = NoFile /\ ckpt_writes = <<>> /\ annealed = <<>> /\ printed = <<>>

\* main_ETM is not in eval mode
EvalIdle ==
    /\ num_words = 10 /\ beta = <<>> /\ k_topic = 0
    /\ topic_lists = <<>> /\ parameters = FALSE

Init == MainInit /\ PreIdle /\ EvalIdle

Next == MainNext

Spec == Init /\ [][Next]_vars

InitPre == PreInit /\ MainIdle /\ EvalIdle

NextPre == PreNext

SpecPre == InitPre /\ [][NextPre]_vars

InitEval == EvalInit /\ PreIdle

NextEval == EvalNext

SpecEval == InitEval /\ [][NextEval]_vars

-----------------------------------------------------------------------------
(* Properties of main_ETM, train mode.                                     *)

InLoop == pc \in {"evaluate", "select", "record"} \/ (pc = "for" /\ epoch < epochs)

\* the loop has been left, by its end or by an exception raised inside it
LoopLeft == ~InLoop

\* the loop ran to its end (the run may then fail to open the checkpoint)
LoopCompleted == LoopLeft /\ error # "ValueError"

One == <<1, 1>>

LrStepShape ==
    /\ \/ opt_lr' = opt_lr
       \/ opt_lr' = RatDiv(opt_lr, lr_factor)
    /\ opt_lr' # opt_lr => pc = "select" /\ pc' = "record"

\* C1 as stated: for every lr_factor the learning rate never increases, each
\* step leaves it unchanged or divides it by lr_factor, and only the selector
\* step changes it.
C1_LrNonIncreasingAnyFactor ==
    [][RatLeq(opt_lr', opt_lr) /\ LrStepShape]_vars

\* C1 amended: each step leaves the learning rate unchanged or divides it by
\* lr_factor, only the selector step changes it, and for lr_factor >= 1 the
\* learning rate never increases.
C1_LrNonIncreasingFactorGeOne ==
    [][(RatLeq(One, lr_factor) => RatLeq(opt_lr', opt_lr)) /\ LrStepShape]_vars

\* the learning rate 0.005 divided twice by 4
C1_Witness ==
    /\ lr_factor = <<4, 1>>
    /\ lr = <<1, 200>>
    /\ Len(annealed) = 2
    /\ opt_lr = <<1, 3200>>

\* the history older than the patience window: all but the last nm entries
OlderThanWindow(hist, nm) == SubSeq(hist, 1, Len(hist) - nm)

PatienceTest ==
    /\ anneal_lr
    /\ Len(all_val_ppls) >= nonmono
    /\ OlderThanWindow(all_val_ppls, nonmono) # <<>>
    /\ val_ppl > Min(OlderThanWindow(all_val_ppls, nonmono))
    /\ RatGt(opt_lr, LrFloor)

\* C2: in the selector step of an epoch that does not improve on the best
\* value, the learning rate is divided if and only if annealing is enabled, at
\* least nonmono epochs of history exist, the perplexity exceeds the minimum
\* of the history older than the patience window, and the rate exceeds 1e-5.
C2_AnnealIffFourConditions ==
    [][(pc = "select" /\ ~(val_ppl < best_val_ppl))
          => ((annealed' # annealed) <=> PatienceTest)]_vars

\* the epochs (from 0) whose perplexity is below that of every earlier epoch
ImprovingEpochs(hist) ==
    {i \in 0..(Len(hist) - 1) : \A j \in 1..i : hist[i + 1] < hist[j]}

\* C3: after every completed epoch best_val_ppl is the minimum perplexity seen,
\* best_epoch is an epoch where it was seen, the checkpoint holds the model as
\* it was at the end of best_epoch, and the checkpoint was written in exactly
\* the epochs that improved on the best value seen before them.
C3_BestIsMinimumAndCheckpointed ==
    (pc = "for" /\ epoch >= 1) =>
        /\ best_val_ppl = Min(all_val_ppls)
        /\ best_epoch \in 0..(epoch - 1)
        /\ all_val_ppls[best_epoch + 1] = best_val_ppl
        /\ ckpt = [run |-> "this", trained |-> best_epoch + 1]
        /\ ckpt_writes = SortedSeq(ImprovingEpochs(all_val_ppls))

\* C4: once a run of at least one epoch (all perplexities finite) has left the
\* loop at its end, the checkpoint has been written during the run, opening it
\* does not fail, and the model in use afterwards is the best model of this run.
C4_CheckpointExistsAfterTraining ==
    (epochs >= 1 /\ LoopCompleted /\ pc # "for") =>
        /\ ckpt_writes # <<>>
        /\ error = "none"
        /\ model = [run |-> "this", trained |-> best_epoch + 1]

\* C5: every write of the checkpoint file happens in the selector step, after
\* the training and the evaluation of the epoch and before the next epoch, and
\* no epoch writes it twice.
C5_CheckpointWrittenOnlyBySelector ==
    [][(ckpt' # ckpt \/ ckpt_writes' # ckpt_writes) =>
          /\ pc = "select" /\ pc' = "record"
          /\ epoch' = epoch
          /\ model.trained = epoch + 1
          /\ Len(printed) = epoch + 1
          /\ \A i \in 1..Len(ckpt_writes) : ckpt_writes[i] < epoch
          /\ ckpt_writes' = Append(ckpt_writes, epoch)
          /\ ckpt' = model]_vars

\* the checkpoint written in two epochs of one run
C5_Witness == Len(ckpt_writes) >= 2 /\ pc = "record"

\* C6: the loop is left only after exactly `epochs` iterations.
C6_LoopRunsExactlyEpochs ==
    LoopLeft =>
        /\ epoch = epochs
        /\ Len(all_val_ppls) = epochs
        /\ Len(printed) = epochs

C7_HistoryState ==
    /\ all_val_ppls = SubSeq(printed, 1, Len(all_val_ppls))
    /\ pc = "for" => Len(all_val_ppls) = Len(printed)
    /\ pc \in {"select", "record"} =>
          /\ Len(all_val_ppls) = epoch
          /\ Len(printed) = epoch + 1
          /\ printed[epoch + 1] = val_ppl

C7_HistoryStep ==
    all_val_ppls' # all_val_ppls =>
        /\ pc = "record"
        /\ all_val_ppls' = Append(all_val_ppls, printed[epoch + 1])

\* C7: the history is append-only: it always equals the perplexities of the
\* completed epochs in order, it changes only by the append of the current
\* epoch's perplexity, and the selector step sees the earlier epochs only.
C7_HistoryAppendOnly == [](C7_HistoryState) /\ [][C7_HistoryStep]_vars

\* the selector of the third epoch sees two different earlier perplexities
C7_Witness ==
    /\ pc = "select"
    /\ epoch = 2
    /\ Len(all_val_ppls) = 2
    /\ all_val_ppls[1] # all_val_ppls[2]

-----------------------------------------------------------------------------
(* Properties of preprocessing.                                            *)

Split == ppc \in {"remove", "halves", "save", "done"}

Cleaned == ppc \in {"halves", "save", "done"}

Halved == ppc \in {"save", "done"}

Saved == ppc = "done"

\* how often id occurs in a document given by its token and count lists
CountOf(tokens, counts, id) ==
    IF \E j \in 1..Len(tokens) : tokens[j] = id
    THEN counts[CHOOSE j \in 1..Len(tokens) : tokens[j] = id]
    ELSE 0

\* C8: the two halves of every kept test document are its first floor(len/2)
\* occurrences and the rest, in order, and the test set and its two halves
\* list the same documents in the same order, in memory and in the files.
C8_TestHalvesPartition ==
    /\ Halved =>
          /\ Len(docs_ts_h1) = Len(docs_ts)
          /\ Len(docs_ts_h2) = Len(docs_ts)
          /\ \A k \in 1..Len(docs_ts) :
                /\ docs_ts_h1[k] \o docs_ts_h2[k] = docs_ts[k]
                /\ Len(docs_ts_h1[k]) = Len(docs_ts[k]) \div 2
    /\ Saved =>
          /\ Len(files["bow_ts_h1_tokens.mat"]) = Len(files["bow_ts_tokens.mat"])
          /\ Len(files["bow_ts_h2_tokens.mat"]) = Len(files["bow_ts_tokens.mat"])
          /\ \A k \in 1..Len(files["bow_ts_tokens.mat"]) :
                \A id \in 0..(Len(files["vocab.pkl"]) - 1) :
                   CountOf(files["bow_ts_tokens.mat"][k], files["bow_ts_counts.mat"][k], id)
                     = CountOf(files["bow_ts_h1_tokens.mat"][k],
                               files["bow_ts_h1_counts.mat"][k], id)
                       + CountOf(files["bow_ts_h2_tokens.mat"][k],
                                 files["bow_ts_h2_counts.mat"][k], id)

\* a saved test document of five occurrences, split in two and three
C8_Witness ==
    /\ Saved
    /\ \E k \in 1..Len(docs_ts) :
          /\ Len(docs_ts[k]) = 5
          /\ Len(docs_ts_h1[k]) = 2
          /\ Len(docs_ts_h2[k]) = 3

IdsBelow(ds, V) ==
    \A k \in 1..Len(ds) : \A i \in 1..Len(ds[k]) : ds[k][i] \in 0..(V - 1)

\* C9: every token id of the train, test, test-half and validation documents,
\* in memory and in the files, is in [0, V) for the vocabulary that is saved,
\* and every word of that vocabulary occurs in a training document.
C9_TokenIdsInVocabulary ==
    /\ Split =>
          /\ IdsBelow(docs_tr, Len(vocab))
          /\ IdsBelow(docs_ts, Len(vocab))
          /\ IdsBelow(docs_va, Len(vocab))
          /\ \A j \in 1..Len(vocab) :
                \E k \in 1..Len(docs_tr) :
                   /\ (j - 1) \in Range(docs_tr[k])
                   /\ vocab[j] \in Range(docs[indices_tr[k] + 1])
    /\ Halved =>
          /\ IdsBelow(docs_ts_h1, Len(vocab))
          /\ IdsBelow(docs_ts_h2, Len(vocab))
    /\ Saved =>
          /\ files["vocab.pkl"] = vocab
          /\ \A name \in {"bow_tr_tokens.mat", "bow_ts_tokens.mat", "bow_ts_h1_tokens.mat",
                          "bow_ts_h2_tokens.mat", "bow_va_tokens.mat"} :
                IdsBelow(files[name], Len(files["vocab.pkl"]))
          /\ \A id \in 0..(Len(files["vocab.pkl"]) - 1) :
                \E k \in 1..Len(files["bow_tr_tokens.mat"]) :
                   id \in Range(files["bow_tr_tokens.mat"][k])

\* a saved run with a vocabulary of two words or more and a test document that
\* lost a word which is not in the vocabulary
C9_Witness ==
    /\ Saved
    /\ Len(vocab) >= 2
    /\ \E k \in 1..Len(docs_ts) : Len(docs_ts[k]) < Len(docs[indices_ts[k] + 1])

Aligned(ds, ts, is) ==
    /\ Len(ts) = Len(ds)
    /\ Len(is) = Len(ds)
    /\ \A k \in 1..Len(ds) :
          /\ is[k] \in 0..(Len(docs) - 1)
          /\ ds[k] = Encode(vocab, docs[is[k] + 1])
          /\ ts[k] = Time2Id(timestamps, timestamps[is[k] + 1])

NoneEmpty(ds) == \A k \in 1..Len(ds) : ds[k] # <<>>

\* C10: every document kept in the train, validation and test sets has a
\* token, every kept test document has a token in each half, and the
\* timestamp and index lists stay aligned with the kept documents.
C10_NoEmptyDocument ==
    /\ Cleaned =>
          /\ NoneEmpty(docs_tr) /\ NoneEmpty(docs_ts) /\ NoneEmpty(docs_va)
          /\ Aligned(docs_tr, timestamps_tr, indices_tr)
          /\ Aligned(docs_ts, timestamps_ts, indices_ts)
          /\ Aligned(docs_va, timestamps_va, indices_va)
    /\ Halved => NoneEmpty(docs_ts_h1) /\ NoneEmpty(docs_ts_h2)
    /\ Saved =>
          /\ \A name \in {"bow_tr_tokens.mat", "bow_ts_tokens.mat", "bow_ts_h1_tokens.mat",
                          "bow_ts_h2_tokens.mat", "bow_va_tokens.mat"} :
                NoneEmpty(files[name])
          /\ Len(files["bow_tr_timestamps.mat"]) = Len(files["bow_tr_tokens.mat"])
          /\ Len(files["bow_ts_timestamps.mat"]) = Len(files["bow_ts_tokens.mat"])
          /\ Len(files["bow_va_timestamps.mat"]) = Len(files["bow_va_tokens.mat"])

\* a saved run with timestamps in which a test document was removed and the
\* test document after it was kept
C10_Witness ==
    /\ Saved
    /\ timestamps = GivenTimestamps
    /\ docs_tr # <<>>
    /\ Len(docs_ts) = 1
    /\ indices_ts[1] = idx_permute[3]
    /\ Len(docs_ts_h1[1]) = 1

RECURSIVE SumSeq(_)
SumSeq(q) == IF q = <<>> THEN 0 ELSE Head(q) + SumSeq(Tail(q))

\* not exactly three non-negative proportions (in percent) summing to 1
Malformed(split) ==
    ~ /\ Len(split) = 3
      /\ \A i \in 1..Len(split) : split[i] >= 0
      /\ SumSeq(split) = 100

\* C11: with a malformed data_split the only step preprocessing takes is the
\* raising of an exception, and that step creates no output folder, computes
\* no split and writes no file.
C11_MalformedSplitFailsFast ==
    [][Malformed(data_split) =>
          /\ ppc' = "raised"
          /\ path_exists' = path_exists
          /\ idx_permute' = idx_permute
          /\ files' = files]_vars

\* the annealing test of a non-improving epoch has reached the comparison
\* against the older history
ReachesOlderHistory ==
    /\ pc = "select"
    /\ ~(val_ppl < best_val_ppl)
    /\ anneal_lr
    /\ Len(all_val_ppls) > nonmono

\* C13: whenever the annealing test of a non-improving epoch reaches the
\* comparison against the older history, all_val_ppls without its last
\* nonmono entries is non-empty, and the selector step never raises.
C13_OlderHistoryNonEmpty ==
    /\ ReachesOlderHistory => OlderHistory(all_val_ppls, nonmono) # <<>>
    /\ error # "ValueError"

RatMin(a, b) == IF RatLeq(a, b) THEN a ELSE b

\* C14: a learning rate at or below 1e-5 is never changed again, and for
\* lr_factor >= 1 the learning rate stays at or above
\* min(initial lr, 1e-5 / lr_factor).
C14_FloorTestedBeforeDivision ==
    /\ [](RatLeq(One, lr_factor) =>
             RatLeq(RatMin(lr, RatDiv(LrFloor, lr_factor)), opt_lr))
    /\ [][RatLeq(opt_lr, LrFloor) => opt_lr' = opt_lr]_vars

\* a learning rate above 1e-5 has been divided to a value below 1e-5
C14_Witness ==
    /\ RatGt(lr, LrFloor)
    /\ annealed # <<>>
    /\ RatGt(LrFloor, opt_lr)
    /\ RatLeq(One, lr_factor)
    /\ pc = "done"

\* the n words of the largest weights of a row, in decreasing order of weight
LargestWords(voc, gamma, n) ==
    [i \in 1..n |->
        voc[CHOOSE a \in 1..Len(gamma) :
                Cardinality({b \in 1..Len(gamma) : gamma[b] > gamma[a]}) = i - 1]]

\* C12: for every topic and every num_words >= 1 (not above the size of the
\* vocabulary) the printed list of the topic holds exactly num_words words:
\* the num_words words of the largest beta[k], in decreasing order of beta[k].
C12_TopWordsPerTopic ==
    num_words <= Len(EvalVocab) =>
        \A t \in 1..Len(topic_lists) :
            /\ Len(topic_lists[t]) = num_words
            /\ topic_lists[t] = LargestWords(EvalVocab, beta[t], num_words)

====
